---- MODULE Spec2Model ----
(***************************************************************************)
(* A model of prepare-build.py: the per-job rewrites                       *)
(* (modify_job_checkouts, add_artifact_upload), the workflow merge         *)
(* (generate_combined_workflow) and the git orchestration of main.         *)
(*                                                                         *)
(* Strings are sequences of tokens (words and separators); concatenation   *)
(* is \o and Python's `in` on strings is a contiguous-subsequence test.    *)
(* An optional mapping key is a sequence of length 0 (absent) or 1.        *)
(***************************************************************************)
EXTENDS Integers, Sequences, FiniteSets, TLC

VARIABLES
    pc,         \* position of main
    noPush,     \* args.no_push
    remote,     \* args.remote
    tag,        \* args.tracy_tag
    remoteHas,  \* per git remote: does branch build-<tag> exist there
    localHas,   \* does the local branch build-<tag> exist
    cmdLog,     \* the commands run_command has run, in order
    responses,  \* per workflow file: the HTTP status of its URL, once requested
    served,     \* per workflow file: the document its URL serves
    fetched,    \* the dict fetch_tracy_workflows returns (its keys, in order)
    combined,   \* the jobs mapping of the combined document
    written,    \* was .github/workflows/build-combined.yml written by this run
    exitCode,   \* what main returned
    fnPc,       \* position of the single-job run
    fnJob,      \* the job_config handed to the per-job rewrites
    fnName,     \* its key in the source document
    fnOnce,     \* the job after modify_job_checkouts
    fnTwice,    \* the job after a second modify_job_checkouts
    fnUpIn,     \* the job_name handed to add_artifact_upload
    fnUp        \* the job after add_artifact_upload

vars == <<pc, noPush, remote, tag, remoteHas, localHas, cmdLog, responses,
          served, fetched, combined, written, exitCode,
          fnPc, fnJob, fnName, fnOnce, fnTwice, fnUpIn, fnUp>>

mainVars == <<pc, noPush, remote, remoteHas, localHas, cmdLog, responses,
              served, fetched, combined, written, exitCode>>

fnVars == <<fnPc, fnJob, fnName, fnOnce, fnTwice, fnUpIn, fnUp>>

(***************************************************************************)
(* Bounds of the model.                                                    *)
(***************************************************************************)
MaxSteps == 2
MaxJobs == 2

(***************************************************************************)
(* Optional values and strings.                                            *)
(***************************************************************************)
None == <<>>
Some(v) == <<v>>

\* Python: word in text
Contains(word, text) ==
    \E i \in 1..(Len(text) - Len(word) + 1) :
        SubSeq(text, i, i + Len(word) - 1) = word

LowerTok(t) ==
    CASE t = "Windows" -> "windows"
      [] t = "MacOS" -> "macos"
      [] t = "Linux" -> "linux"
      [] OTHER -> t

\* Python: text.lower()
Lower(text) == [i \in 1..Len(text) |-> LowerTok(text[i])]

\* Python: str(list of strings), e.g. "['a', 'b']"
RECURSIVE StrItems(_)
StrItems(list) ==
    IF list = <<>> THEN <<>>
    ELSE <<"'">> \o Head(list) \o <<"'">>
         \o (IF Len(list) > 1 THEN <<", ">> ELSE <<>>)
         \o StrItems(Tail(list))

StrList(list) == <<"[">> \o StrItems(list) \o <<"]">>

\* Python: mapping.get(key, default) for an optional key
Get(opt, default) == IF opt = None THEN default ELSE opt[1]

(***************************************************************************)
(* modify_job_checkouts                                                    *)
(***************************************************************************)
RefExpr(t) == <<"${{ ", "github.event.inputs.tracy_tag", " || ", "'", t, "'", " }}">>

CheckoutWith(t) ==
    << <<"repository", <<"wolfpld", "/", "tracy">> >>, <<"ref", RefExpr(t)>> >>

IsCheckout(step) == step.uses # None /\ Contains(<<"checkout">>, step.uses[1])

KeepWithCheckouts(job, t) ==
    IF job.steps = None THEN job
    ELSE LET s == job.steps[1] IN
         [job EXCEPT !.steps = Some([i \in 1..Len(s) |->
             IF IsCheckout(s[i]) /\ s[i].with = None
             THEN [s[i] EXCEPT !.with = Some(CheckoutWith(t))]
             ELSE s[i]])]

ModifyJobCheckouts(job, t) ==
    IF job.steps = None THEN job
    ELSE LET s == job.steps[1] IN
         [job EXCEPT !.steps = Some([i \in 1..Len(s) |->
             IF IsCheckout(s[i])
             THEN [s[i] EXCEPT !.with = Some(CheckoutWith(t))]
             ELSE s[i]])]

(***************************************************************************)
(* add_artifact_upload                                                     *)
(***************************************************************************)
ExePath == <<"**/*.exe">>
ReleasePath ==
    <<"**/Tracy-release", "\n", "**/capture-release", "\n",
      "**/csvexport-release", "\n", "**/import-chrome-release">>

UploadStep(artifactName, artifactPath) ==
    [name |-> Some(<<"Upload artifacts">>),
     uses |-> Some(<<"actions", "/", "upload", "-", "artifact", "@", "v4">>),
     with |-> Some(<< <<"name", artifactName>>, <<"path", artifactPath>> >>),
     run  |-> None]

\* any("upload-artifact" in str(step.get("uses", "")) for step in steps)
HasUpload(steps) ==
    \E i \in 1..Len(steps) :
        Contains(<<"upload", "-", "artifact">>, Get(steps[i].uses, <<>>))

\* str(job_config.get("runs-on", "")).lower()
OsType(job) == Lower(Get(job.runsOn, <<>>))

\* str(job_config.get("strategy", {}).get("matrix", {}).get("os", [])).lower()
MatrixOs(job) ==
    Lower(StrList(Get(Get(job.matrix, [os |-> None]).os, <<>>)))

ArtifactName(job, jobName) ==
    IF Contains(<<"windows">>, OsType(job)) \/ Contains(<<"windows">>, MatrixOs(job))
    THEN Some(<<"tracy", "-", "windows">>)
    ELSE IF Contains(<<"macos">>, OsType(job)) \/ Contains(<<"macos">>, MatrixOs(job))
    THEN Some(<<"tracy", "-", "macos">>)
    ELSE IF Contains(<<"linux">>, Lower(jobName)) \/ job.container # None
    THEN Some(<<"tracy", "-", "linux">>)
    ELSE None

ArtifactPath(job) ==
    IF Contains(<<"windows">>, OsType(job)) \/ Contains(<<"windows">>, MatrixOs(job))
    THEN ExePath
    ELSE ReleasePath

AppendUpload(job, jobName) ==
    IF ArtifactName(job, jobName) = None THEN job
    ELSE [job EXCEPT !.steps =
             Some(Append(job.steps[1],
                         UploadStep(ArtifactName(job, jobName)[1], ArtifactPath(job))))]

AddArtifactUploadAlways(job, jobName) ==
    IF job.steps = None THEN job
    ELSE AppendUpload(job, jobName)

AddArtifactUpload(job, jobName) ==
    IF job.steps = None THEN job
    ELSE IF HasUpload(job.steps[1]) THEN job
    ELSE AppendUpload(job, jobName)

(***************************************************************************)
(* The loop body of generate_combined_workflow, per source document.       *)
(***************************************************************************)
BuildYml == "build.yml"
LinuxYml == "linux.yml"
WorkflowNames == <<BuildYml, LinuxYml>>

\* the key a job gets in the combined document
JobKey(docName, jobName) ==
    IF docName = LinuxYml THEN <<"tracy", "-", "linux", "-">> \o jobName
    ELSE <<"tracy", "-">> \o jobName

\* the job_name handed to add_artifact_upload
UploadName(docName, jobName) ==
    IF docName = LinuxYml THEN <<"linux", "-">> \o jobName ELSE jobName

ProcessJob(docName, jobName, job, t) ==
    AddArtifactUpload(ModifyJobCheckouts(job, t), UploadName(docName, jobName))

(***************************************************************************)
(* The inputs the single-job run draws from.                               *)
(***************************************************************************)
Tags == {"v0.11.0", "v0.12.2"}

StepCheckout ==
    [name |-> None, uses |-> Some(<<"actions", "/", "checkout", "@", "v4">>),
     with |-> None, run |-> None]
StepCheckoutWith ==
    [name |-> Some(<<"Checkout">>),
     uses |-> Some(<<"actions", "/", "checkout", "@", "v3">>),
     with |-> Some(<< <<"repository", <<"other", "/", "repo">> >>,
                      <<"ref", <<"main">> >>,
                      <<"fetch-depth", <<"0">> >> >>),
     run |-> None]
StepRun ==
    [name |-> Some(<<"Build">>), uses |-> None, with |-> None,
     run |-> Some(<<"cmake", " --build">>)]
StepCache ==
    [name |-> None, uses |-> Some(<<"actions", "/", "cache", "@", "v4">>),
     with |-> Some(<< <<"path", <<"build">> >> >>), run |-> None]
StepUploadOld ==
    [name |-> None,
     uses |-> Some(<<"actions", "/", "upload", "-", "artifact", "@", "v3">>),
     with |-> Some(<< <<"name", <<"bin">> >> >>), run |-> None]

StepPool == {StepCheckout, StepCheckoutWith, StepRun, StepCache, StepUploadOld}

StepLists == UNION {[1..n -> StepPool] : n \in 0..MaxSteps}

JobNames == {<<"build">>, <<"build", "-", "linux">>, <<"Linux">>}

RunsOnPool ==
    {None, Some(<<"Windows", "-", "2022">>), Some(<<"macos", "-", "13">>),
     Some(<<"ubuntu", "-", "latest">>)}

MatrixPool ==
    {None, Some([os |-> None]),
     Some([os |-> Some(<< <<"ubuntu", "-", "latest">>, <<"windows", "-", "latest">> >>)]),
     Some([os |-> Some(<< <<"MacOS", "-", "14">> >>)]),
     Some([os |-> Some(<< <<"ubuntu", "-", "22.04">> >>)])}

ContainerPool == {None, Some(<<"archlinux", ":", "base">>)}

Jobs ==
    [steps : {None} \cup {Some(l) : l \in StepLists},
     runsOn : RunsOnPool, matrix : MatrixPool, container : ContainerPool]

NoJob == [steps |-> None, runsOn |-> None, matrix |-> None, container |-> None]

(***************************************************************************)
(* The single-job run: one job_config of a source document goes through    *)
(* the loop body; the checkout rewrite may be applied a second time.       *)
(***************************************************************************)
MainIdle ==
    /\ pc = "idle" /\ noPush = FALSE /\ remote = "origin"
    /\ remoteHas = [r \in {"origin"} |-> FALSE] /\ localHas = FALSE
    /\ cmdLog = <<>> /\ responses = <<>> /\ served = <<>> /\ fetched = <<>>
    /\ combined = <<>> /\ written = FALSE /\ exitCode = "none"

FnIdle ==
    /\ fnPc = "idle" /\ fnJob = NoJob /\ fnName = <<>> /\ fnOnce = NoJob
    /\ fnTwice = NoJob /\ fnUpIn = <<>> /\ fnUp = NoJob

InitJob ==
    /\ MainIdle
    /\ tag \in Tags
    /\ fnPc = "start"
    /\ fnJob \in Jobs
    /\ fnName \in JobNames
    /\ fnOnce = NoJob /\ fnTwice = NoJob /\ fnUpIn = <<>> /\ fnUp = NoJob

FnRewrite ==
    /\ fnPc = "start"
    /\ fnOnce' = ModifyJobCheckouts(fnJob, tag)
    /\ fnPc' = "once"
    /\ UNCHANGED <<mainVars, tag, fnJob, fnName, fnTwice, fnUpIn, fnUp>>

FnRewriteAgain ==
    /\ fnPc = "once"
    /\ fnTwice' = ModifyJobCheckouts(fnOnce, tag)
    /\ fnPc' = "twice"
    /\ UNCHANGED <<mainVars, tag, fnJob, fnName, fnOnce, fnUpIn, fnUp>>

FnUpload(docName) ==
    /\ fnPc = "once"
    /\ fnUpIn' = UploadName(docName, fnName)
    /\ fnUp' = AddArtifactUpload(fnOnce, UploadName(docName, fnName))
    /\ fnPc' = "uploaded"
    /\ UNCHANGED <<mainVars, tag, fnJob, fnName, fnOnce, fnTwice>>

FnUploadBuild == FnUpload(BuildYml)

FnUploadLinux == FnUpload(LinuxYml)

NextJob == FnRewrite \/ FnRewriteAgain \/ FnUploadBuild \/ FnUploadLinux

SpecJob == InitJob /\ [][NextJob]_vars

(***************************************************************************)
(* generate_combined_workflow: the jobs mapping is an insertion-ordered    *)
(* dict, modelled as a sequence of [key, job] entries.                     *)
(***************************************************************************)
Keys(m) == [i \in 1..Len(m) |-> m[i].key]

HasKey(m, k) == \E i \in 1..Len(m) : m[i].key = k

\* Python: m[k] = v (an existing key keeps its position and gets the new value)
Put(m, k, v) ==
    IF HasKey(m, k)
    THEN [i \in 1..Len(m) |-> IF m[i].key = k THEN [key |-> k, job |-> v] ELSE m[i]]
    ELSE Append(m, [key |-> k, job |-> v])

\* for job_name, job_config in wf["jobs"].items(): ...
RECURSIVE AddJobs(_, _, _, _)
AddJobs(m, docName, entries, t) ==
    IF entries = <<>> THEN m
    ELSE AddJobs(Put(m, JobKey(docName, Head(entries).name),
                     ProcessJob(docName, Head(entries).name, Head(entries).job, t)),
                 docName, Tail(entries), t)

InWorkflows(docName, workflows) ==
    \E i \in 1..Len(workflows) : workflows[i] = docName

ProcessDocument(m, docName, workflows, docs, t) ==
    IF InWorkflows(docName, workflows) /\ docs[docName].jobs # None
    THEN AddJobs(m, docName, docs[docName].jobs[1], t)
    ELSE m

ReleaseKey == <<"create", "-", "release">>

\* the "create-release" entry of ./create_release.yml
ReleaseTemplate ==
    [runsOn |-> Some(<<"ubuntu", "-", "latest">>), needs |-> None]

NeedsWithRelease(m) == Append(Keys(m), ReleaseKey)

\* all_job_names = list(combined["jobs"].keys())
AllJobNames(m) == Keys(m)

CombinedJobs(workflows, docs, t) ==
    LET m1 == ProcessDocument(<<>>, BuildYml, workflows, docs, t)
        m2 == ProcessDocument(m1, LinuxYml, workflows, docs, t)
        release == [ReleaseTemplate EXCEPT !.needs = Some(AllJobNames(m2))]
    IN  Put(m2, ReleaseKey, release)

(***************************************************************************)
(* run_command and the state of git.                                       *)
(***************************************************************************)
Remotes == {"origin", "upstream"}

RaisesOnAnyFailure(ok, check) == ~ok

RaisesNever(ok, check) == FALSE

\* subprocess.run(cmd, check=check) raises CalledProcessError
Raises(ok, check) == check /\ ~ok

ShouldPushAlways(np) == TRUE

\* should_push = not args.no_push
ShouldPush(np) == ~np

\* the remote of the final push in commit_and_push
PushRemote == "origin"

Entry(cmd, rem, ok, check) == [cmd |-> cmd, remote |-> rem, ok |-> ok, check |-> check]

\* run_command(cmd, check) inside main's try: an exception ends main with 1;
\* next = "done" is the return 0 that follows the last command
Run(cmd, rem, ok, check, next) ==
    /\ cmdLog' = Append(cmdLog, Entry(cmd, rem, ok, check))
    /\ IF Raises(ok, check)
       THEN pc' = "done" /\ exitCode' = "1"
       ELSE /\ pc' = next
            /\ exitCode' = IF next = "done" THEN "0" ELSE exitCode

(***************************************************************************)
(* fetch_tracy_workflows                                                   *)
(***************************************************************************)
HttpStatuses == {200, 404, 500}

SavesAllBut404(status) == status # 404

\* if response.status_code == 200
IsSuccess(status) == status = 200

\* the body of a non-200 response: it holds no jobs
ErrorBody == [jobs |-> None]

Fetched(statuses) ==
    SelectSeq(WorkflowNames,
              LAMBDA n : IsSuccess(statuses[IF n = BuildYml THEN 1 ELSE 2]))

ContinuesWithNone(workflows) == FALSE

\* if not workflows
NoWorkflows(workflows) == workflows = <<>>

(***************************************************************************)
(* The documents the workflow URLs serve.                                  *)
(***************************************************************************)
JobA ==
    [steps |-> Some(<<StepCheckoutWith, StepRun>>),
     runsOn |-> Some(<<"ubuntu", "-", "latest">>), matrix |-> None,
     container |-> None]
JobB ==
    [steps |-> Some(<<StepCheckout>>), runsOn |-> None,
     matrix |-> Some([os |-> Some(<< <<"windows", "-", "latest">> >>)]),
     container |-> None]

MergeJobs == {JobA, JobB}

MergeNames == {<<"build">>, <<"linux", "-", "build">>, <<"macos">>}

UniqueNames(entries) ==
    \A i, j \in 1..Len(entries) : entries[i].name = entries[j].name => i = j

JobLists ==
    {l \in UNION {[1..n -> [name : MergeNames, job : MergeJobs]] : n \in 0..MaxJobs} :
        UniqueNames(l)}

Docs == {ErrorBody} \cup {[jobs |-> Some(l)] : l \in JobLists}

\* the documents drawn by the run of main: without jobs, with an empty jobs
\* mapping, with one job and with two jobs (the merge on its own draws from Docs)
PipelineDocs ==
    {[jobs |-> None],
     [jobs |-> Some(<<>>)],
     [jobs |-> Some(<< [name |-> <<"build">>, job |-> JobB] >>)],
     [jobs |-> Some(<< [name |-> <<"linux", "-", "build">>, job |-> JobA],
                       [name |-> <<"macos">>, job |-> JobB] >>)]}

(***************************************************************************)
(* main                                                                    *)
(***************************************************************************)
Init ==
    /\ pc = "checkout_main"
    /\ noPush \in BOOLEAN
    /\ remote \in Remotes
    /\ tag \in Tags
    /\ remoteHas \in [Remotes -> BOOLEAN]
    /\ localHas \in BOOLEAN
    /\ cmdLog = <<>> /\ responses = <<>> /\ served = <<>> /\ fetched = <<>>
    /\ combined = <<>> /\ written = FALSE /\ exitCode = "none"
    /\ FnIdle

CheckoutMain ==
    /\ pc = "checkout_main"
    /\ \E ok \in BOOLEAN :
         Run("checkout main", "", ok, FALSE,
             IF ShouldPush(noPush) THEN "fetch_remote" ELSE "list_local")
    /\ UNCHANGED <<noPush, remote, tag, remoteHas, localHas, responses, served,
                   fetched, combined, written, fnVars>>

FetchRemote ==
    /\ pc = "fetch_remote"
    /\ \E ok \in BOOLEAN : Run("fetch", remote, ok, FALSE, "ls_remote")
    /\ UNCHANGED <<noPush, remote, tag, remoteHas, localHas, responses, served,
                   fetched, combined, written, fnVars>>

LsRemote ==
    /\ pc = "ls_remote"
    /\ \E ok \in BOOLEAN :
         Run("ls-remote", remote, ok, TRUE,
             IF remoteHas[remote] THEN "delete_remote" ELSE "list_local")
    /\ UNCHANGED <<noPush, remote, tag, remoteHas, localHas, responses, served,
                   fetched, combined, written, fnVars>>

DeleteRemote ==
    /\ pc = "delete_remote"
    /\ \E ok \in BOOLEAN :
         /\ Run("push --delete", remote, ok, FALSE, "list_local")
         /\ remoteHas' = IF ok THEN [remoteHas EXCEPT ![remote] = FALSE] ELSE remoteHas
    /\ UNCHANGED <<noPush, remote, tag, localHas, responses, served,
                   fetched, combined, written, fnVars>>

ListLocal ==
    /\ pc = "list_local"
    /\ \E ok \in BOOLEAN :
         Run("branch --list", "", ok, TRUE,
             IF localHas THEN "delete_local" ELSE "create_branch")
    /\ UNCHANGED <<noPush, remote, tag, remoteHas, localHas, responses, served,
                   fetched, combined, written, fnVars>>

DeleteLocal ==
    /\ pc = "delete_local"
    /\ \E ok \in BOOLEAN :
         /\ Run("branch -D", "", ok, FALSE, "create_branch")
         /\ localHas' = IF ok THEN FALSE ELSE localHas
    /\ UNCHANGED <<noPush, remote, tag, remoteHas, responses, served,
                   fetched, combined, written, fnVars>>

\* git checkout -b fails when the branch exists
CreateBranch ==
    /\ pc = "create_branch"
    /\ \E ok \in (IF localHas THEN {FALSE} ELSE BOOLEAN) :
         /\ Run("checkout -b", "", ok, TRUE, "fetch_workflows")
         /\ localHas' = (localHas \/ ok)
    /\ UNCHANGED <<noPush, remote, tag, remoteHas, responses, served,
                   fetched, combined, written, fnVars>>

FetchWorkflows ==
    /\ pc = "fetch_workflows"
    /\ \E st \in [1..2 -> HttpStatuses], docs \in [{BuildYml, LinuxYml} -> PipelineDocs] :
         /\ responses' = st
         /\ served' = [n \in {BuildYml, LinuxYml} |->
                          IF st[IF n = BuildYml THEN 1 ELSE 2] = 200
                          THEN docs[n] ELSE ErrorBody]
         /\ \A n \in {BuildYml, LinuxYml} :
              st[IF n = BuildYml THEN 1 ELSE 2] # 200 => docs[n] = ErrorBody
         /\ fetched' = Fetched(st)
         /\ IF NoWorkflows(Fetched(st))
            THEN pc' = "done" /\ exitCode' = "1"
            ELSE pc' = "generate" /\ exitCode' = exitCode
    /\ UNCHANGED <<noPush, remote, tag, remoteHas, localHas, cmdLog,
                   combined, written, fnVars>>

\* requests.get raises (no response): main's except returns 1
FetchRaises ==
    /\ pc = "fetch_workflows"
    /\ \E st \in {<<>>} \cup {<<s>> : s \in HttpStatuses} : responses' = st
    /\ pc' = "done" /\ exitCode' = "1"
    /\ UNCHANGED <<noPush, remote, tag, remoteHas, localHas, cmdLog, served,
                   fetched, combined, written, fnVars>>

Generate ==
    /\ pc = "generate"
    /\ combined' = CombinedJobs(fetched, served, tag)
    /\ written' = TRUE
    /\ pc' = "config_probe"
    /\ UNCHANGED <<noPush, remote, tag, remoteHas, localHas, cmdLog, responses,
                   served, fetched, exitCode, fnVars>>

\* a source document or ./create_release.yml cannot be read or parsed
GenerateRaises ==
    /\ pc = "generate"
    /\ pc' = "done" /\ exitCode' = "1"
    /\ UNCHANGED <<noPush, remote, tag, remoteHas, localHas, cmdLog, responses,
                   served, fetched, combined, written, fnVars>>

\* try: git config user.name / except CalledProcessError: set name and email
ConfigProbe ==
    /\ pc = "config_probe"
    /\ \E ok \in BOOLEAN :
         /\ cmdLog' = Append(cmdLog, Entry("config user.name", "", ok, TRUE))
         /\ pc' = IF Raises(ok, TRUE) THEN "config_name" ELSE "add_combined"
    /\ UNCHANGED <<noPush, remote, tag, remoteHas, localHas, responses, served,
                   fetched, combined, written, exitCode, fnVars>>

ConfigName ==
    /\ pc = "config_name"
    /\ \E ok \in BOOLEAN : Run("config user.name NAME", "", ok, TRUE, "config_email")
    /\ UNCHANGED <<noPush, remote, tag, remoteHas, localHas, responses, served,
                   fetched, combined, written, fnVars>>

ConfigEmail ==
    /\ pc = "config_email"
    /\ \E ok \in BOOLEAN : Run("config user.email EMAIL", "", ok, TRUE, "add_combined")
    /\ UNCHANGED <<noPush, remote, tag, remoteHas, localHas, responses, served,
                   fetched, combined, written, fnVars>>

AddCombined ==
    /\ pc = "add_combined"
    /\ \E ok \in BOOLEAN : Run("add build-combined.yml", "", ok, TRUE, "add_workflows")
    /\ UNCHANGED <<noPush, remote, tag, remoteHas, localHas, responses, served,
                   fetched, combined, written, fnVars>>

AddWorkflows ==
    /\ pc = "add_workflows"
    /\ \E ok \in BOOLEAN : Run("add tracy-workflows/", "", ok, TRUE, "commit")
    /\ UNCHANGED <<noPush, remote, tag, remoteHas, localHas, responses, served,
                   fetched, combined, written, fnVars>>

Commit ==
    /\ pc = "commit"
    /\ \E ok \in BOOLEAN :
         Run("commit", "", ok, TRUE, IF ShouldPush(noPush) THEN "push" ELSE "done")
    /\ UNCHANGED <<noPush, remote, tag, remoteHas, localHas, responses, served,
                   fetched, combined, written, fnVars>>

Push ==
    /\ pc = "push"
    /\ \E ok \in BOOLEAN :
         /\ Run("push", PushRemote, ok, TRUE, "done")
         /\ remoteHas' = IF ok THEN [remoteHas EXCEPT ![PushRemote] = TRUE] ELSE remoteHas
    /\ UNCHANGED <<noPush, remote, tag, localHas, responses, served,
                   fetched, combined, written, fnVars>>

Next ==
    \/ CheckoutMain \/ FetchRemote \/ LsRemote \/ DeleteRemote
    \/ ListLocal \/ DeleteLocal \/ CreateBranch
    \/ FetchWorkflows \/ FetchRaises \/ Generate \/ GenerateRaises
    \/ ConfigProbe \/ ConfigName \/ ConfigEmail
    \/ AddCombined \/ AddWorkflows \/ Commit \/ Push

Spec == Init /\ [][Next]_vars

(***************************************************************************)
(* generate_combined_workflow on its own: main has reached the call with   *)
(* a non-empty dict of fetched workflows.                                  *)
(***************************************************************************)
InitMerge ==
    /\ pc = "generate"
    /\ noPush = TRUE
    /\ remote = "origin"
    /\ tag \in Tags
    /\ remoteHas = [r \in Remotes |-> FALSE]
    /\ localHas = TRUE
    /\ cmdLog = <<Entry("checkout main", "", TRUE, FALSE),
                  Entry("branch --list", "", TRUE, TRUE),
                  Entry("checkout -b", "", TRUE, TRUE)>>
    /\ responses \in {st \in [1..2 -> {200, 404}] : ~NoWorkflows(Fetched(st))}
    /\ fetched = Fetched(responses)
    /\ served \in {d \in [{BuildYml, LinuxYml} -> Docs] :
                     \A n \in {BuildYml, LinuxYml} :
                         ~InWorkflows(n, fetched) => d[n] = ErrorBody}
    /\ combined = <<>> /\ written = FALSE /\ exitCode = "none"
    /\ FnIdle

NextMerge == Generate \/ GenerateRaises

SpecMerge == InitMerge /\ [][NextMerge]_vars

(***************************************************************************)
(* Properties of the per-job rewrites (checked under SpecJob).             *)
(***************************************************************************)
HasToken(tok, text) == \E i \in 1..Len(text) : LowerTok(text[i]) = tok

\* the platform named by runs-on or by an entry of the matrix os list
NamesPlatform(job, platform) ==
    \/ job.runsOn # None /\ HasToken(platform, job.runsOn[1])
    \/ /\ job.matrix # None
       /\ job.matrix[1].os # None
       /\ \E k \in 1..Len(job.matrix[1].os[1]) :
              HasToken(platform, job.matrix[1].os[1][k])

FourPatterns ==
    <<"**/Tracy-release", "\n", "**/capture-release", "\n",
      "**/csvexport-release", "\n", "**/import-chrome-release">>

\* the artifact the decision order selects; linuxNeedsNoMatrix states the
\* restriction "for a job with no matrix" of the third rule
SelectedArtifact(job, jobName, linuxNeedsNoMatrix) ==
    IF NamesPlatform(job, "windows") THEN "windows"
    ELSE IF NamesPlatform(job, "macos") THEN "macos"
    ELSE IF /\ linuxNeedsNoMatrix => job.matrix = None
            /\ HasToken("linux", jobName) \/ job.container # None
    THEN "linux"
    ELSE "none"

IsUploadOf(step, artifact) ==
    /\ step.uses # None
    /\ Contains(<<"upload", "-", "artifact">>, step.uses[1])
    /\ step.with =
         Some(<< <<"name", <<"tracy", "-", artifact>> >>,
                 <<"path", IF artifact = "windows" THEN <<"**/*.exe">>
                           ELSE FourPatterns>> >>)

AlreadyUploads(job) ==
    \E i \in 1..Len(job.steps[1]) :
        /\ job.steps[1][i].uses # None
        /\ Contains(<<"upload", "-", "artifact">>, job.steps[1][i].uses[1])

UploadDecision(in, jobName, out, linuxNeedsNoMatrix) ==
    IF in.steps = None THEN out = in
    ELSE IF AlreadyUploads(in) THEN out = in
    ELSE LET a == SelectedArtifact(in, jobName, linuxNeedsNoMatrix)
             n == Len(in.steps[1])
         IN  IF a = "none" THEN out = in
             ELSE /\ [out EXCEPT !.steps = in.steps] = in
                  /\ out.steps # None
                  /\ Len(out.steps[1]) = n + 1
                  /\ SubSeq(out.steps[1], 1, n) = in.steps[1]
                  /\ IsUploadOf(out.steps[1][n + 1], a)

\* C7 as stated: the third rule (tracy-linux) applies only to a job with no
\* matrix; every job handed to add_artifact_upload comes out as the decision
\* order says.
C7_AsStated ==
    fnPc = "uploaded" => UploadDecision(fnOnce, fnUpIn, fnUp, TRUE)

\* C7 amended: add_artifact_upload follows the decision order windows, macos,
\* linux, where the linux rule (job_name contains "linux", case-insensitively,
\* or the job has a container) applies whether or not the job has a matrix;
\* a job with an upload-artifact step or without steps is left unchanged.
C7_UploadDecision ==
    fnPc = "uploaded" => UploadDecision(fnOnce, fnUpIn, fnUp, FALSE)

\* a job with a matrix that names neither windows nor macos got tracy-linux
C7_Witness ==
    /\ fnPc = "uploaded"
    /\ fnOnce.matrix # None
    /\ fnOnce.steps # None
    /\ ~AlreadyUploads(fnOnce)
    /\ SelectedArtifact(fnOnce, fnUpIn, FALSE) = "linux"
    /\ Len(fnUp.steps[1]) = Len(fnOnce.steps[1]) + 1

RewrittenWith(w, t) ==
    /\ Len(w) = 2
    /\ w[1] = <<"repository", <<"wolfpld", "/", "tracy">> >>
    /\ w[2][1] = "ref"
    /\ w[2][2] = <<"${{ ", "github.event.inputs.tracy_tag", " || ", "'", t, "'", " }}">>

UsesCheckout(step) ==
    step.uses # None /\ \E i \in 1..Len(step.uses[1]) : step.uses[1][i] = "checkout"

\* C8: after modify_job_checkouts every checkout step has a with block of
\* exactly repository=wolfpld/tracy and ref=the override-or-tag expression,
\* every other step and field of the job is unchanged, and a second
\* application with the same tag changes nothing.
C8_CheckoutRewrite ==
    /\ fnPc \in {"once", "twice", "uploaded"} =>
         /\ [fnOnce EXCEPT !.steps = fnJob.steps] = fnJob
         /\ (fnOnce.steps = None) = (fnJob.steps = None)
         /\ fnJob.steps # None =>
              /\ Len(fnOnce.steps[1]) = Len(fnJob.steps[1])
              /\ \A i \in 1..Len(fnJob.steps[1]) :
                   LET old == fnJob.steps[1][i]
                       new == fnOnce.steps[1][i]
                   IN  IF UsesCheckout(old)
                       THEN /\ new.with # None
                            /\ RewrittenWith(new.with[1], tag)
                            /\ [new EXCEPT !.with = old.with] = old
                       ELSE new = old
    /\ fnPc = "twice" => fnTwice = fnOnce

\* a checkout step with earlier with content and another step were rewritten twice
C8_Witness ==
    /\ fnPc = "twice"
    /\ fnJob.steps # None
    /\ \E i, j \in 1..Len(fnJob.steps[1]) :
         /\ UsesCheckout(fnJob.steps[1][i])
         /\ fnJob.steps[1][i].with # None
         /\ fnJob.steps[1][i].with # fnTwice.steps[1][i].with
         /\ ~UsesCheckout(fnJob.steps[1][j])

(***************************************************************************)
(* Properties of the merge (checked under SpecMerge).                      *)
(***************************************************************************)
\* the jobs a source document contributes
SourceJobs(docName) ==
    IF (\E i \in 1..Len(fetched) : fetched[i] = docName) /\ served[docName].jobs # None
    THEN served[docName].jobs[1]
    ELSE <<>>

BuildKeys ==
    [i \in 1..Len(SourceJobs(BuildYml)) |->
        <<"tracy", "-">> \o SourceJobs(BuildYml)[i].name]

LinuxKeys ==
    [i \in 1..Len(SourceJobs(LinuxYml)) |->
        <<"tracy", "-", "linux", "-">> \o SourceJobs(LinuxYml)[i].name]

\* C1: no job of build.yml and no job of linux.yml get the same combined key,
\* so the combined mapping holds one non-release job per source job.
C1_DistinctKeys ==
    written =>
        /\ \A i \in 1..Len(BuildKeys), j \in 1..Len(LinuxKeys) :
               BuildKeys[i] # LinuxKeys[j]
        /\ Len(combined) - 1 = Len(SourceJobs(BuildYml)) + Len(SourceJobs(LinuxYml))

\* C2: the needs list of create-release is exactly the ordered list of the
\* other keys of the combined document (the build.yml keys in document order,
\* then the linux.yml keys in document order), never names create-release,
\* and is empty only if both documents contribute no job.
C2_ReleaseNeeds ==
    written =>
        LET n == Len(combined)
            others == [i \in 1..(n - 1) |-> combined[i].key]
            expected ==
                BuildKeys \o SelectSeq(LinuxKeys,
                    LAMBDA k : \A i \in 1..Len(BuildKeys) : BuildKeys[i] # k)
        IN  /\ n >= 1
            /\ combined[n].key = <<"create", "-", "release">>
            /\ combined[n].job.needs = <<others>>
            /\ others = expected
            /\ \A i \in 1..(n - 1) : others[i] # <<"create", "-", "release">>
            /\ (others = <<>>) <=>
                   (SourceJobs(BuildYml) = <<>> /\ SourceJobs(LinuxYml) = <<>>)

\* both documents contributed jobs and the release job needs them all
C2_Witness ==
    /\ written
    /\ Len(SourceJobs(BuildYml)) = 2
    /\ Len(SourceJobs(LinuxYml)) >= 1
    /\ Len(combined[Len(combined)].job.needs[1]) >= 3

(***************************************************************************)
(* Properties of main (checked under Spec).                                *)
(***************************************************************************)
Requested == Len(responses) = 2

ZeroFetched == Requested /\ responses[1] # 200 /\ responses[2] # 200

ExactlyOneFetched ==
    Requested /\ ((responses[1] = 200) # (responses[2] = 200))

Ran(cmd) == \E i \in 1..Len(cmdLog) : cmdLog[i].cmd = cmd

Succeeded(cmd) == \E i \in 1..Len(cmdLog) : cmdLog[i].cmd = cmd /\ cmdLog[i].ok

OnlyJobsOf(docName) ==
    LET prefix == IF docName = BuildYml THEN <<"tracy", "-">>
                  ELSE <<"tracy", "-", "linux", "-">>
        jobs == served[docName].jobs
        n == IF jobs = <<>> THEN 0 ELSE Len(jobs[1])
    IN  /\ Len(combined) = n + 1
        /\ \A i \in 1..n : combined[i].key = prefix \o jobs[1][i].name
        /\ combined[n + 1].key = <<"create", "-", "release">>

\* C4: with one URL answering 200 and the other a non-200 status the run
\* continues and the combined document holds only the prefixed jobs of the
\* fetched document plus create-release; with two non-200 answers the run
\* aborts and the combined file is not written.
C4_FetchOutcomes ==
    /\ [](/\ (ExactlyOneFetched /\ written) =>
               OnlyJobsOf(IF responses[1] = 200 THEN BuildYml ELSE LinuxYml)
          /\ ZeroFetched => (pc = "done" /\ exitCode = "1" /\ ~written))
    /\ [][(pc = "fetch_workflows" /\ ExactlyOneFetched')
              => (pc' = "generate" /\ exitCode' = "none")]_vars

\* only linux.yml was fetched and its two jobs were merged
C4_Witness ==
    /\ ExactlyOneFetched
    /\ responses[1] = 404
    /\ written
    /\ Len(combined) = 3

\* C5: every git command that addresses a remote uses the name given by --remote.
C5_RemoteEverywhere ==
    \A i \in 1..Len(cmdLog) :
        cmdLog[i].cmd \in {"fetch", "ls-remote", "push --delete", "push"}
            => cmdLog[i].remote = remote

WholeSequence ==
    /\ Succeeded("checkout -b")
    /\ \E i \in 1..Len(responses) : responses[i] = 200
    /\ written
    /\ Succeeded("add build-combined.yml")
    /\ Succeeded("add tracy-workflows/")
    /\ Succeeded("commit")
    /\ ~noPush => Succeeded("push")

\* the command at position i failed and ended the run with exit code 1
Aborted(i) == i = Len(cmdLog) /\ pc = "done" /\ exitCode = "1"

\* C6 as stated: exit code 0 only after the whole sequence succeeded, and the
\* failure of any command run with check=True aborts the run with exit code 1.
C6_AsStated ==
    /\ exitCode = "0" => WholeSequence
    /\ \A i \in 1..Len(cmdLog) :
           (cmdLog[i].check /\ ~cmdLog[i].ok) => Aborted(i)

\* C6 amended: as stated, except that a failure of the probe
\* `git config user.name` is caught by commit_and_push, which goes on to set
\* the user name and email.
C6_ExitCodes ==
    /\ exitCode = "0" => WholeSequence
    /\ \A i \in 1..Len(cmdLog) :
           (cmdLog[i].check /\ ~cmdLog[i].ok) =>
               IF cmdLog[i].cmd = "config user.name"
               THEN /\ (pc = "done" /\ exitCode = "1") => i < Len(cmdLog)
                    /\ i < Len(cmdLog) => cmdLog[i + 1].cmd = "config user.name NAME"
               ELSE Aborted(i)

\* a pushed run ended with 0 although the probe of user.name had failed
C6_Witness ==
    /\ exitCode = "0"
    /\ ~noPush
    /\ \E i \in 1..Len(cmdLog) : cmdLog[i].cmd = "config user.name" /\ ~cmdLog[i].ok

\* C9: with --no-push no command addresses a remote and the branches of the
\* remotes never change.
C9_NoPushLeavesRemote ==
    [][noPush =>
         /\ remoteHas' = remoteHas
         /\ \A i \in 1..Len(cmdLog') :
                /\ cmdLog'[i].remote = ""
                /\ cmdLog'[i].cmd \notin {"fetch", "ls-remote", "push --delete", "push"}]_vars

\* a --no-push run committed and ended with 0
C9_Witness ==
    /\ noPush
    /\ pc = "done" /\ exitCode = "0"
    /\ Succeeded("commit")

\* C10: a failed best-effort command (checkout main, fetch, deletion of the
\* remote branch, deletion of the local branch) leaves the run going: the
\* step that follows it is next and no exit code is set.
C10_BestEffort ==
    [][\A c \in {"checkout main", "fetch", "push --delete", "branch -D"} :
          (/\ Len(cmdLog') = Len(cmdLog) + 1
           /\ cmdLog'[Len(cmdLog')].cmd = c
           /\ ~cmdLog'[Len(cmdLog')].ok)
          => /\ exitCode' = "none"
             /\ pc' \in CASE c = "checkout main" -> {"fetch_remote", "list_local"}
                          [] c = "fetch" -> {"ls_remote"}
                          [] c = "push --delete" -> {"list_local"}
                          [] c = "branch -D" -> {"create_branch"}]_vars

\* checkout main, fetch and the remote deletion all failed and the run ended with 0
C10_Witness ==
    /\ pc = "done" /\ exitCode = "0"
    /\ \A c \in {"checkout main", "fetch", "push --delete"} :
           \E i \in 1..Len(cmdLog) : cmdLog[i].cmd = c /\ ~cmdLog[i].ok

====
